---------------------------- MODULE Spec2Model ----------------------------
(***************************************************************************)
(* Model of the mortgage calculator: the pure function calculateMortgage   *)
(* (src/src/utils/mortgageCalculator.ts), the form of src/src/app/page.tsx *)
(* (zod schema, handleSubmit(onSubmit), the calculation state) and the     *)
(* change handler of InputField.                                           *)
(*                                                                         *)
(* JavaScript numbers are modelled as exact rationals n/d in lowest terms, *)
(* extended with the IEEE-754 values a division by zero produces:          *)
(* 1/0 is Infinity, -1/0 is -Infinity and 0/0 is NaN.  Rounding of doubles *)
(* and the sign of zero are not modelled.                                  *)
(***************************************************************************)
EXTENDS Integers, Sequences, FiniteSets

VARIABLES
    calculation,    \* useState<MortgageCalculation | null>: << >> is null, <<c>> holds c
    errors,         \* formState.errors: the fields carrying an error message
    lastValid,      \* ghost: the most recent submitted data that passed the schema
    invoked,        \* ghost: whether the last submit called calculateMortgage
    target,         \* e.target.value of the input receiving a change event
    field,          \* the name prop of that InputField
    pc,             \* position of the change handler
    depth,          \* frames of the onChange wrapper on the call stack
    formatCalls,    \* ghost: calls of formatValue in the current change event
    originalCalls,  \* ghost: calls of register's own onChange in the current event
    outcome         \* how the last change event ended

formVars == <<calculation, errors, lastValid, invoked>>
inputVars == <<target, field, pc, depth, formatCalls, originalCalls, outcome>>
vars == <<calculation, errors, lastValid, invoked,
          target, field, pc, depth, formatCalls, originalCalls, outcome>>

---------------------------------------------------------------------------
(* Bounds of the model *)

MaxPrice == 2       \* homePrice ranges over 0..MaxPrice, downPayment over -1..MaxPrice
MaxLen == 4         \* longest text typed into an input
MaxStack == 3       \* frames the engine allows before it throws RangeError

---------------------------------------------------------------------------
(* JavaScript numbers *)

Abs(a) == IF a < 0 THEN -a ELSE a

Sgn(a) == IF a < 0 THEN -1 ELSE IF a = 0 THEN 0 ELSE 1

RECURSIVE GCD(_, _)
GCD(a, b) == IF b = 0 THEN a ELSE GCD(b, a % b)

\* n/d in lowest terms with d >= 0; d = 0 keeps only the sign of n
Ratio(n, d) ==
    IF d = 0 THEN [n |-> Sgn(n), d |-> 0]
    ELSE LET g == GCD(Abs(n), Abs(d))
         IN  [n |-> Sgn(d) * (n \div g), d |-> Abs(d) \div g]

Number(i) == [n |-> i, d |-> 1]

NaN == [n |-> 0, d |-> 0]

isNaN(x) == x.d = 0 /\ x.n = 0

Neg(x) == [n |-> -(x.n), d |-> x.d]

\* x + y
Add(x, y) ==
    IF isNaN(x) \/ isNaN(y) THEN NaN
    ELSE IF x.d = 0 /\ y.d = 0 THEN (IF x.n = y.n THEN x ELSE NaN)
    ELSE IF x.d = 0 THEN x
    ELSE IF y.d = 0 THEN y
    ELSE LET g == GCD(x.d, y.d)
         IN  Ratio(x.n * (y.d \div g) + y.n * (x.d \div g), (x.d \div g) * y.d)

\* x - y
Sub(x, y) == Add(x, Neg(y))

\* x * y
Mul(x, y) ==
    IF isNaN(x) \/ isNaN(y) THEN NaN
    ELSE IF x.d = 0 \/ y.d = 0 THEN Ratio(Sgn(x.n) * Sgn(y.n), 0)
    ELSE IF x.n = 0 \/ y.n = 0 THEN Number(0)
    ELSE LET g1 == GCD(Abs(x.n), y.d)
             g2 == GCD(Abs(y.n), x.d)
         IN  Ratio((x.n \div g1) * (y.n \div g2), (x.d \div g2) * (y.d \div g1))

\* x / y: a finite x over zero is +-Infinity, zero over zero is NaN
Div(x, y) ==
    IF isNaN(x) \/ isNaN(y) THEN NaN
    ELSE IF y.d = 0 THEN (IF x.d = 0 THEN NaN ELSE Number(0))
    ELSE IF y.n = 0 THEN Ratio(Sgn(x.n), 0)
    ELSE Mul(x, [n |-> Sgn(y.n) * y.d, d |-> Abs(y.n)])

\* x < y: false when either side is NaN
Lt(x, y) ==
    /\ ~isNaN(x)
    /\ ~isNaN(y)
    /\ IF x.d = 0 \/ y.d = 0
       THEN x # y /\ (x = [n |-> -1, d |-> 0] \/ y = [n |-> 1, d |-> 0])
       ELSE LET g == GCD(x.d, y.d)
            IN  x.n * (y.d \div g) < y.n * (x.d \div g)

\* x === y: false when either side is NaN
Eq(x, y) == ~isNaN(x) /\ ~isNaN(y) /\ x = y

\* x >= y
Ge(x, y) == Lt(y, x) \/ Eq(x, y)

RECURSIVE PowNat(_, _)
PowNat(x, k) ==
    IF k = 0 THEN Number(1)
    ELSE LET h == PowNat(x, k \div 2)
         IN  IF k % 2 = 0 THEN Mul(h, h) ELSE Mul(x, Mul(h, h))

\* Math.pow(base, exponent), for the whole, non-negative exponents loanTerm * 12 takes
pow(base, exponent) == PowNat(base, exponent.n)

---------------------------------------------------------------------------
(* calculateMortgage, one definition per const of the source *)

\* mutant: the down payment is not subtracted
loanAmount_IgnoresDownPayment(inputs) == inputs.homePrice

loanAmount(inputs) == Sub(inputs.homePrice, inputs.downPayment)

monthlyInterestRate(inputs) == Div(Div(inputs.interestRate, Number(100)), Number(12))

numberOfPayments(inputs) == Mul(inputs.loanTerm, Number(12))

\* mutant: the numerator lacks its factor (1 + r)^n
monthlyPrincipalAndInterest_NoGrowthFactor(inputs) ==
    Div(Mul(loanAmount(inputs), monthlyInterestRate(inputs)),
        Sub(pow(Add(Number(1), monthlyInterestRate(inputs)), numberOfPayments(inputs)), Number(1)))

\* mutant: a zero rate falls back to loanAmount / numberOfPayments
monthlyPrincipalAndInterest_ZeroRateGuard(inputs) ==
    IF monthlyInterestRate(inputs) = Number(0)
    THEN Div(loanAmount(inputs), numberOfPayments(inputs))
    ELSE Div(Mul(loanAmount(inputs),
                 Mul(monthlyInterestRate(inputs),
                     pow(Add(Number(1), monthlyInterestRate(inputs)),
                         numberOfPayments(inputs)))),
             Sub(pow(Add(Number(1), monthlyInterestRate(inputs)), numberOfPayments(inputs)),
                 Number(1)))

monthlyPrincipalAndInterest(inputs) ==
    Div(Mul(loanAmount(inputs),
            Mul(monthlyInterestRate(inputs),
                pow(Add(Number(1), monthlyInterestRate(inputs)), numberOfPayments(inputs)))),
        Sub(pow(Add(Number(1), monthlyInterestRate(inputs)), numberOfPayments(inputs)), Number(1)))

\* mutant: the tax is taken on the loan amount instead of the home price
monthlyPropertyTax_OnLoanAmount(inputs) ==
    Div(Mul(Div(inputs.propertyTax, Number(100)), loanAmount(inputs)), Number(12))

monthlyPropertyTax(inputs) ==
    Div(Mul(Div(inputs.propertyTax, Number(100)), inputs.homePrice), Number(12))

monthlyInsurance(inputs) == Div(inputs.homeInsurance, Number(12))

\* mutant: PMI is taken on the home price instead of the loan amount
monthlyPMI_OnHomePrice(inputs) ==
    Div(Mul(Div(inputs.pmi, Number(100)), inputs.homePrice), Number(12))

monthlyPMI(inputs) == Div(Mul(Div(inputs.pmi, Number(100)), loanAmount(inputs)), Number(12))

monthlyHOA(inputs) == inputs.hoa

monthlyUtilities(inputs) == inputs.utilities

monthlyMaintenance(inputs) == inputs.maintenance

\* mutant: the sum leaves out the PMI
totalMonthlyPayment_OmitsPMI(pAndI, propertyTax, insurance, pmi, hoa, utilities, maintenance) ==
    Add(Add(Add(Add(Add(pAndI, propertyTax), insurance), hoa), utilities), maintenance)

\* the sum of the seven monthly components, added in the source's order
totalMonthlyPayment(pAndI, propertyTax, insurance, pmi, hoa, utilities, maintenance) ==
    Add(Add(Add(Add(Add(Add(pAndI, propertyTax), insurance), pmi), hoa), utilities),
        maintenance)

totalInterestPaid(pAndI, payments, loan) == Sub(Mul(pAndI, payments), loan)

calculateMortgage(inputs) ==
    LET pAndI == monthlyPrincipalAndInterest(inputs)
    IN  [monthlyPrincipalAndInterest |-> pAndI,
         monthlyPropertyTax |-> monthlyPropertyTax(inputs),
         monthlyInsurance |-> monthlyInsurance(inputs),
         monthlyPMI |-> monthlyPMI(inputs),
         monthlyHOA |-> monthlyHOA(inputs),
         monthlyUtilities |-> monthlyUtilities(inputs),
         monthlyMaintenance |-> monthlyMaintenance(inputs),
         totalMonthlyPayment |->
             totalMonthlyPayment(pAndI, monthlyPropertyTax(inputs),
                                 monthlyInsurance(inputs), monthlyPMI(inputs),
                                 monthlyHOA(inputs), monthlyUtilities(inputs),
                                 monthlyMaintenance(inputs)),
         totalLoanAmount |-> loanAmount(inputs),
         totalInterestPaid |->
             totalInterestPaid(pAndI, numberOfPayments(inputs), loanAmount(inputs))]

---------------------------------------------------------------------------
(* The form: schema, defaultValues, handleSubmit(onSubmit) *)

FieldNames ==
    {"homePrice", "downPayment", "loanTerm", "interestRate", "propertyTax",
     "homeInsurance", "pmi", "hoa", "utilities", "maintenance"}

\* the .min(...) of each field of the zod schema
schemaMin(name) == IF name \in {"homePrice", "loanTerm"} THEN Number(1) ELSE Number(0)

\* the fields the resolver reports an error for
schemaErrors(data) == {name \in FieldNames : ~Ge(data[name], schemaMin(name))}

defaultValues ==
    [homePrice |-> Number(300000), downPayment |-> Number(60000), loanTerm |-> Number(30),
     interestRate |-> Ratio(35, 10), propertyTax |-> Ratio(12, 10),
     homeInsurance |-> Number(1200), pmi |-> Ratio(5, 10), hoa |-> Number(250),
     utilities |-> Number(200), maintenance |-> Number(200)]

null == << >>

\* (loanTerm, interestRate) pairs whose exact amortization factor (1 + r)^n stays
\* within TLC's 32-bit integers: r is 0, 1/2 or 1 a month
Amortizations ==
    {<<0, 1200>>, <<1, 0>>, <<1, 600>>, <<1, 1200>>, <<2, 1200>>, <<30, 0>>}

NoCosts ==
    [propertyTax |-> Number(0), homeInsurance |-> Number(0), pmi |-> Number(0),
     hoa |-> Number(0), utilities |-> Number(0), maintenance |-> Number(0)]

SomeCosts ==
    [propertyTax |-> Number(600), homeInsurance |-> Number(6), pmi |-> Number(1200),
     hoa |-> Number(1), utilities |-> Number(2), maintenance |-> Number(3)]

MakeInputs(hp, dp, am, costs) ==
    [homePrice |-> Number(hp), downPayment |-> Number(dp), loanTerm |-> Number(am[1]),
     interestRate |-> Number(am[2]), propertyTax |-> costs.propertyTax,
     homeInsurance |-> costs.homeInsurance, pmi |-> costs.pmi, hoa |-> costs.hoa,
     utilities |-> costs.utilities, maintenance |-> costs.maintenance]

\* the data handleSubmit can hand to the resolver: every value of MaxPrice's
\* range for the two amounts, each amortization, no or some costs, and each cost
\* field negative in turn
SubmittedData ==
    {MakeInputs(hp, dp, am, costs) :
        hp \in 0..MaxPrice, dp \in (-1)..MaxPrice,
        am \in Amortizations, costs \in {NoCosts, SomeCosts}}
    \cup {[MakeInputs(1, 0, <<1, 1200>>, SomeCosts) EXCEPT ![name] = Number(-1)] :
            name \in {"propertyTax", "homeInsurance", "pmi", "hoa", "utilities",
                      "maintenance"}}

\* onSubmit: setCalculation(calculateMortgage(data))
onSubmit(data) == <<calculateMortgage(data)>>

\* mutant: handleSubmit without the resolver, onSubmit runs on any data
Submit_WithoutResolver(data) ==
    /\ pc = "idle"
    /\ errors' = schemaErrors(data)
    /\ calculation' = onSubmit(data)
    /\ lastValid' = IF errors' = {} THEN <<data>> ELSE lastValid
    /\ invoked' = TRUE
    /\ UNCHANGED inputVars

\* handleSubmit(onSubmit) with zodResolver(schema): onSubmit runs only on valid data
Submit(data) ==
    /\ pc = "idle"
    /\ errors' = schemaErrors(data)
    /\ IF errors' = {}
       THEN /\ calculation' = onSubmit(data)
            /\ lastValid' = <<data>>
            /\ invoked' = TRUE
       ELSE /\ invoked' = FALSE
            /\ UNCHANGED <<calculation, lastValid>>
    /\ UNCHANGED inputVars

---------------------------------------------------------------------------
(* InputField: formatNumberWithCommas, formatValue, registerOptions *)

Digits == {"0", "1", "2", "3", "4", "5", "6", "7", "8", "9"}

\* \w of a regular expression, over the characters of the model
WordChars == Digits \cup {"a", "_"}

\* the characters typed in the model
Chars == {"1", ".", ",", "a"}

\* the texts an input can hold when a change event fires
Texts == UNION {[1..k -> Chars] : k \in 0..MaxLen}

\* the two kinds of InputField: a currency field and a percentage field
EditedFields == {"homePrice", "interestRate"}

\* String.prototype.indexOf, 1-based, 0 when absent
indexOf(s, c) ==
    IF \E i \in 1..Len(s) : s[i] = c
    THEN CHOOSE i \in 1..Len(s) : s[i] = c /\ \A j \in 1..(i - 1) : s[j] # c
    ELSE 0

RECURSIVE split(_, _)
\* String.prototype.split(c)
split(s, c) ==
    LET i == indexOf(s, c)
    IN  IF i = 0 THEN <<s>>
        ELSE <<SubSeq(s, 1, i - 1)>> \o split(SubSeq(s, i + 1, Len(s)), c)

RECURSIVE join(_, _)
\* Array.prototype.join(c) of a non-empty array
join(parts, c) ==
    IF Len(parts) = 1 THEN parts[1]
    ELSE parts[1] \o <<c>> \o join(Tail(parts), c)

\* whether /\B(?=(\d{3})+(?!\d))/ matches between s[p] and s[p + 1]
commaAfter(s, p) ==
    /\ p \in 1..(Len(s) - 1)
    /\ (s[p] \in WordChars) = (s[p + 1] \in WordChars)
    /\ \E k \in 1..Len(s) :
          /\ p + 3 * k <= Len(s)
          /\ \A j \in (p + 1)..(p + 3 * k) : s[j] \in Digits
          /\ (p + 3 * k = Len(s) \/ s[p + 3 * k + 1] \notin Digits)

RECURSIVE insertCommas(_, _)
\* s.replace(/\B(?=(\d{3})+(?!\d))/g, ','), from position p on
insertCommas(s, p) ==
    IF p > Len(s) THEN << >>
    ELSE <<s[p]>> \o (IF commaAfter(s, p) THEN <<",">> ELSE << >>)
         \o insertCommas(s, p + 1)

formatNumberWithCommas(value) ==
    LET numberStr == SelectSeq(value, LAMBDA c : c # ",")
        parts == split(numberStr, ".")
    IN  join([parts EXCEPT ![1] = insertCommas(parts[1], 1)], ".")

RECURSIVE keepFirstDot(_, _)
\* value.replace(/\./g, (match, index, string) => index === string.indexOf('.') ? '.' : '')
keepFirstDot(s, i) ==
    IF i > Len(s) THEN << >>
    ELSE (IF s[i] = "." /\ i # indexOf(s, ".") THEN << >> ELSE <<s[i]>>)
         \o keepFirstDot(s, i + 1)

\* isNaN(parseFloat(s)) for a text of digits and dots
parseFloatIsNaN(s) ==
    ~ \/ (Len(s) >= 1 /\ s[1] \in Digits)
      \/ (Len(s) >= 2 /\ s[1] = "." /\ s[2] \in Digits)

\* formatValue(e) of the InputField called name: the value it leaves in e.target.value
formatValue(name, raw) ==
    LET stripped == SelectSeq(raw, LAMBDA c : c \in Digits \cup {"."})
        decimalCount == Len(SelectSeq(stripped, LAMBDA c : c = "."))
        value == IF decimalCount > 1 THEN keepFirstDot(stripped, 1) ELSE stripped
    IN  IF value = << >> THEN raw
        ELSE LET isPercentage == name \in {"interestRate", "propertyTax", "pmi"}
                 decimalPlaces == IF isPercentage THEN 3 ELSE 2
                 parts == split(value, ".")
                 cut == IF Len(parts) > 1 /\ Len(parts[2]) > decimalPlaces
                        THEN join([parts EXCEPT ![2] = SubSeq(parts[2], 1, decimalPlaces)], ".")
                        ELSE value
             IN  IF ~parseFloatIsNaN(cut) THEN formatNumberWithCommas(cut) ELSE raw

\* what register(name, {setValueAs}) of react-hook-form returns
register(name) ==
    [name |-> name, onChange |-> "register.onChange", onBlur |-> "register.onChange",
     ref |-> "register.ref"]

\* { ...register(name, ...), onChange: (e) => {...} }: the later key replaces the
\* spread one, so registerOptions.onChange is the wrapper
registerOptions(name) == [register(name) EXCEPT !.onChange = "wrapper"]

\* the browser fires a change event on <input {...registerOptions}>
ChangeEvent(name, text) ==
    /\ pc = "idle"
    /\ field' = name
    /\ target' = text
    /\ formatCalls' = 0
    /\ originalCalls' = 0
    /\ outcome' = "running"
    /\ IF registerOptions(name).onChange = "wrapper"
       THEN depth' = 1 /\ pc' = "formatValue"
       ELSE depth' = 0 /\ pc' = "idle"
    /\ UNCHANGED formVars

\* the wrapper's first statement: formatValue(e)
WrapperFormatValue ==
    /\ pc = "formatValue"
    /\ target' = formatValue(field, target)
    /\ formatCalls' = formatCalls + 1
    /\ pc' = "callOnChange"
    /\ UNCHANGED <<field, depth, originalCalls, outcome>>
    /\ UNCHANGED formVars

\* the wrapper's second statement: registerOptions.onChange(e).  A call of the
\* wrapper pushes a frame, or throws RangeError when the stack is full; a call of
\* register's onChange returns, and then the wrapper returns.
WrapperCallOnChange ==
    /\ pc = "callOnChange"
    /\ IF registerOptions(field).onChange = "wrapper"
       THEN IF depth < MaxStack
            THEN /\ depth' = depth + 1
                 /\ pc' = "formatValue"
                 /\ UNCHANGED <<originalCalls, outcome>>
            ELSE /\ depth' = 0
                 /\ pc' = "idle"
                 /\ outcome' = "RangeError"
                 /\ UNCHANGED originalCalls
       ELSE /\ originalCalls' = originalCalls + 1
            /\ depth' = 0
            /\ pc' = "idle"
            /\ outcome' = "returned"
    /\ UNCHANGED <<target, field, formatCalls>>
    /\ UNCHANGED formVars

Init ==
    /\ calculation = null
    /\ errors = {}
    /\ lastValid = << >>
    /\ invoked = FALSE
    /\ target = << >>
    /\ field = "homePrice"
    /\ pc = "idle"
    /\ depth = 0
    /\ formatCalls = 0
    /\ originalCalls = 0
    /\ outcome = "none"

Next == \E data \in SubmittedData : Submit(data)

Spec == Init /\ [][Next]_vars

InputNext ==
    \/ \E name \in EditedFields, text \in Texts : ChangeEvent(name, text)
    \/ WrapperFormatValue
    \/ WrapperCallOnChange

InputSpec == Init /\ [][InputNext]_vars

---------------------------------------------------------------------------
(* The claims.  In a state with a displayed calculation, shown is that        *)
(* calculation and given the data it was computed from.                       *)

hasCalculation == calculation # null

shown == calculation[1]

given == lastValid[1]

Zero == Number(0)

RECURSIVE SumOf(_)
\* xs[1] + xs[2] + ... + xs[n], added from the left
SumOf(xs) ==
    IF Len(xs) = 1 THEN xs[1]
    ELSE Add(SumOf(SubSeq(xs, 1, Len(xs) - 1)), xs[Len(xs)])

\* the inputs that differ from inputs only in interestRate, with a larger rate
LargerRate(inputs) ==
    {[inputs EXCEPT !.interestRate = Number(am[2])] :
        am \in {a \in Amortizations :
                  Number(a[1]) = inputs.loanTerm /\ Lt(inputs.interestRate, Number(a[2]))}}

\* the valid inputs that differ from inputs only in downPayment, with a larger one
LargerDownPayment(inputs) ==
    {[inputs EXCEPT !.downPayment = Number(dp)] :
        dp \in {v \in 0..MaxPrice : Lt(inputs.downPayment, Number(v))}}

\* C1: the total monthly payment of a displayed calculation is the sum of its
\* seven monthly components
C1_TotalIsSumOfComponents ==
    hasCalculation =>
        shown.totalMonthlyPayment =
            SumOf(<<shown.monthlyPrincipalAndInterest, shown.monthlyPropertyTax,
                    shown.monthlyInsurance, shown.monthlyPMI, shown.monthlyHOA,
                    shown.monthlyUtilities, shown.monthlyMaintenance>>)

C1_Witness ==
    /\ hasCalculation
    /\ \A c \in {"monthlyPrincipalAndInterest", "monthlyPropertyTax", "monthlyInsurance",
                 "monthlyPMI", "monthlyHOA", "monthlyUtilities", "monthlyMaintenance"} :
          Lt(Zero, shown[c])

\* C2: the total loan amount is the home price less the down payment
C2_LoanAmountIsPriceLessDownPayment ==
    hasCalculation => Eq(Add(shown.totalLoanAmount, given.downPayment), given.homePrice)

C2_Witness ==
    hasCalculation /\ Lt(Zero, given.downPayment) /\ Lt(Zero, shown.totalLoanAmount)

\* C3 (as claimed): a down payment equal to the home price gives a zero loan
\* amount, principal-and-interest, PMI and total interest, at any interest rate
C3_FullDownPaymentGivesZeros ==
    (hasCalculation /\ given.downPayment = given.homePrice) =>
        /\ Eq(shown.totalLoanAmount, Zero)
        /\ Eq(shown.monthlyPrincipalAndInterest, Zero)
        /\ Eq(shown.monthlyPMI, Zero)
        /\ Eq(shown.totalInterestPaid, Zero)

\* C4 (as claimed): a larger interest rate gives a strictly larger
\* principal-and-interest, whatever the other inputs.  Stated on the inputs with
\* interestRate > 0, where the principal-and-interest is a number.
C4_Original ==
    (hasCalculation /\ Lt(Zero, given.interestRate)) =>
        \A other \in LargerRate(given) :
            Lt(shown.monthlyPrincipalAndInterest,
               calculateMortgage(other).monthlyPrincipalAndInterest)

\* C4 (amended): with a positive rate, a larger interest rate gives a strictly
\* larger principal-and-interest when homePrice > downPayment, the same zero when
\* they are equal and a strictly smaller one when downPayment > homePrice; at
\* interestRate = 0 the principal-and-interest is NaN
C4_RateMonotoneForPositiveLoan ==
    hasCalculation =>
        /\ Eq(given.interestRate, Zero) => isNaN(shown.monthlyPrincipalAndInterest)
        /\ Lt(Zero, given.interestRate) =>
              \A other \in LargerRate(given) :
                 LET larger == calculateMortgage(other).monthlyPrincipalAndInterest
                 IN  /\ Lt(given.downPayment, given.homePrice) =>
                            Lt(shown.monthlyPrincipalAndInterest, larger)
                     /\ given.downPayment = given.homePrice =>
                            (Eq(shown.monthlyPrincipalAndInterest, Zero) /\ Eq(larger, Zero))
                     /\ Lt(given.homePrice, given.downPayment) =>
                            Lt(larger, shown.monthlyPrincipalAndInterest)

C4_Witness ==
    /\ hasCalculation
    /\ Lt(Zero, given.interestRate)
    /\ Lt(given.downPayment, given.homePrice)
    /\ LargerRate(given) # {}

\* C5 (as claimed): a larger down payment gives a strictly smaller loan amount,
\* PMI and principal-and-interest, whatever the other inputs.  Stated on the inputs
\* with interestRate > 0, where the principal-and-interest is a number.
C5_Original ==
    (hasCalculation /\ Lt(Zero, given.interestRate)) =>
        \A other \in LargerDownPayment(given) :
            LET c == calculateMortgage(other)
            IN  /\ Lt(c.totalLoanAmount, shown.totalLoanAmount)
                /\ Lt(c.monthlyPMI, shown.monthlyPMI)
                /\ Lt(c.monthlyPrincipalAndInterest, shown.monthlyPrincipalAndInterest)

\* C5 (amended): a larger down payment gives a strictly smaller loan amount; a
\* strictly smaller PMI when pmi > 0 and the same zero PMI when pmi = 0; a strictly
\* smaller principal-and-interest when interestRate > 0 and NaN on both sides when
\* interestRate = 0
C5_DownPaymentMonotone ==
    hasCalculation =>
        \A other \in LargerDownPayment(given) :
            LET c == calculateMortgage(other)
            IN  /\ Lt(c.totalLoanAmount, shown.totalLoanAmount)
                /\ Lt(Zero, given.pmi) => Lt(c.monthlyPMI, shown.monthlyPMI)
                /\ Eq(given.pmi, Zero) =>
                       (Eq(c.monthlyPMI, Zero) /\ Eq(shown.monthlyPMI, Zero))
                /\ Lt(Zero, given.interestRate) =>
                       Lt(c.monthlyPrincipalAndInterest, shown.monthlyPrincipalAndInterest)
                /\ Eq(given.interestRate, Zero) =>
                       (isNaN(c.monthlyPrincipalAndInterest)
                        /\ isNaN(shown.monthlyPrincipalAndInterest))

C5_Witness ==
    /\ hasCalculation
    /\ Lt(Zero, given.pmi)
    /\ Lt(Zero, given.interestRate)
    /\ LargerDownPayment(given) # {}

\* C6: a submit with interestRate = 0 is accepted and displays a NaN
\* principal-and-interest, total monthly payment and total interest
C6_ZeroRateGivesNaN ==
    (hasCalculation /\ Eq(given.interestRate, Zero)) =>
        /\ isNaN(shown.monthlyPrincipalAndInterest)
        /\ isNaN(shown.totalMonthlyPayment)
        /\ isNaN(shown.totalInterestPaid)

C6_Witness ==
    /\ hasCalculation
    /\ Eq(given.interestRate, Zero)
    /\ Lt(Zero, shown.totalLoanAmount)

\* C7: the displayed calculation is null until a submit passes validation and
\* then is calculateMortgage of the latest data that passed; data with a
\* non-positive homePrice or loanTerm or a negative other field never passes; a
\* rejected submit does not call calculateMortgage and leaves the display as it was
C7_DisplayFollowsValidSubmits ==
    /\ [](/\ (lastValid = << >>) => (calculation = null)
          /\ (lastValid # << >>) =>
                /\ calculation = <<calculateMortgage(given)>>
                /\ Lt(Zero, given.homePrice)
                /\ Lt(Zero, given.loanTerm)
                /\ \A name \in FieldNames : Ge(given[name], Zero)
          /\ (errors # {}) => ~invoked)
    /\ [][(errors' # {}) => (calculation' = calculation /\ lastValid' = lastValid)]_vars

C7_Witness == hasCalculation /\ errors # {} /\ ~invoked

\* C8: the six components that are not amortized equal their reference
\* formulas, and the form's default inputs give a loan amount of 240000, a
\* monthly property tax of 300, insurance of 100 and PMI of 100
C8_ComponentsMatchReference ==
    /\ hasCalculation =>
          /\ Eq(Mul(shown.monthlyPropertyTax, Number(1200)),
                Mul(given.propertyTax, given.homePrice))
          /\ Eq(Mul(shown.monthlyInsurance, Number(12)), given.homeInsurance)
          /\ Eq(Mul(shown.monthlyPMI, Number(1200)),
                Mul(given.pmi, Sub(given.homePrice, given.downPayment)))
          /\ shown.monthlyHOA = given.hoa
          /\ shown.monthlyUtilities = given.utilities
          /\ shown.monthlyMaintenance = given.maintenance
    /\ loanAmount(defaultValues) = Number(240000)
    /\ monthlyPropertyTax(defaultValues) = Number(300)
    /\ monthlyInsurance(defaultValues) = Number(100)
    /\ monthlyPMI(defaultValues) = Number(100)

C8_Witness ==
    /\ hasCalculation
    /\ Lt(Zero, shown.monthlyPropertyTax)
    /\ Lt(Zero, shown.monthlyInsurance)
    /\ Lt(Zero, shown.monthlyPMI)
    /\ Lt(Zero, given.downPayment)
    /\ Lt(Zero, shown.monthlyHOA)
    /\ Lt(shown.monthlyHOA, shown.monthlyUtilities)
    /\ Lt(shown.monthlyUtilities, shown.monthlyMaintenance)

\* C9 (as claimed): a change event runs formatValue once and register's own
\* onChange once and returns, the wrapper never re-entering itself
C9_ChangeHandlerRunsOnce ==
    /\ depth <= 1
    /\ formatCalls <= 1
    /\ (pc = "idle" /\ outcome # "none") =>
          (outcome = "returned" /\ formatCalls = 1 /\ originalCalls = 1)

\* C10 (as claimed): a displayed calculation has a non-negative loan amount and
\* non-negative monthly components
C10_DisplayedAmountsNonNegative ==
    hasCalculation =>
        /\ Ge(shown.totalLoanAmount, Zero)
        /\ \A c \in {"monthlyPrincipalAndInterest", "monthlyPropertyTax",
                     "monthlyInsurance", "monthlyPMI", "monthlyHOA", "monthlyUtilities",
                     "monthlyMaintenance"} :
              Ge(shown[c], Zero)

===========================================================================
